---- MODULE Spec2Model ----
(***************************************************************************)
(* Model of deepspeed/ops/fp_quantizer/quantize.py: the FP_Quantize codec. *)
(*                                                                         *)
(* A tensor is abstracted to its shape, its element type and the           *)
(* provenance of its contents: `codes` is the id of the input tensor whose *)
(* narrow codes it holds, `inl` the id of the tensor whose scale is stored *)
(* inline, `scl` the id of the tensor whose scale a reconstruction used.   *)
(* Python's AssertionError is told apart by the assert statement raising   *)
(* it; failures inside torch calls are RuntimeError / ValueError /         *)
(* TypeError.                                                              *)
(***************************************************************************)
EXTENDS Integers, Sequences, FiniteSets, TLC

VARIABLES self, last, held, called, engines, ctx, shared

vars == <<self, last, held, called, engines, ctx, shared>>

-----------------------------------------------------------------------------
(* Bounds *)

MaxLen == 3
MaxGroup == 2

-----------------------------------------------------------------------------
(* Python / torch values *)

None == [kind |-> "None"]
Absent == [kind |-> "absent"]
PyInt(n) == [kind |-> "int", v |-> n]
Size(d) == [kind |-> "Size", dims |-> d]

\* shapes of rank 1, 2 and 3
Lens == 1..MaxLen
Shapes == {<<n>> : n \in Lens} \cup {<<2, 2>>, <<2, 1, 2>>}
GroupSizes == 2..MaxGroup
\* two contents, to tell a value left by one call from the value of another
TensorIds == {1, 2}
QBits == {4, 5, 6, 8, 12}
Mantissas == {2, 3}

RECURSIVE Prod(_)
Prod(s) == IF s = <<>> THEN 1 ELSE Head(s) * Prod(Tail(s))

numel(shape) == Prod(shape)

Min(a, b) == IF a < b THEN a ELSE b

\* a wide input tensor
Tensor(id, shape, dtype) == [kind |-> "tensor", id |-> id, shape |-> shape, dtype |-> dtype]
\* a tensor of narrow codes
QTensor(shape, codes, inl) == [kind |-> "qtensor", shape |-> shape, codes |-> codes, inl |-> inl]
\* a scale tensor of shape [rows, cols]
ScaleT(rows, cols, of) == [kind |-> "scale", rows |-> rows, cols |-> cols, of |-> of]
\* a reconstructed (or caller-allocated) wide tensor
OutT(shape, dtype, codes, scl) == [kind |-> "out", shape |-> shape, dtype |-> dtype, codes |-> codes, scl |-> scl]
Pair(data, scale) == [kind |-> "pair", data |-> data, scale |-> scale]

\* the wide tensors a caller passes
InputTensors == {Tensor(i, s, "bf16") : i \in TensorIds, s \in Shapes}

\* a tensor of another element type
HalfTensor == Tensor(1, <<2>>, "fp16")

\* q_mantisa_bits only reaches the backend when q_bits = 8
MantissasFor(q_bits) == IF q_bits = 8 THEN Mantissas ELSE {3}

\* argument tuples <<input, q_bits, q_mantisa_bits, return_meta_tensor>> of
\* quantize: every combination for the wide tensors, the default call and a
\* call wrong in every argument for the other one
QuantizeArgs(bits) ==
    {<<t, b, m, meta>> : t \in InputTensors, b \in bits, m \in Mantissas, meta \in BOOLEAN}
    \cup {<<HalfTensor, 8, 3, FALSE>>, <<HalfTensor, 5, 2, TRUE>>}

\* result of one call: the instance after it, the error raised ("none" when
\* it returned), the value returned, the shape of the buffer it allocated
Result(s, err, ret, alloc) == [self |-> s, err |-> err, ret |-> ret, alloc |-> alloc]

-----------------------------------------------------------------------------
(* FP_Quantize.__init__ *)

\* variant: the element type preset instead of None
FP_Quantize_init_stale(fallback, gs) ==
    [is_fallback |-> fallback, group_size |-> gs, orig_dtype |-> "bf16",
     orig_shape |-> Absent, num_groups |-> None, input_q |-> None, scale |-> None]

FP_Quantize_init(fallback, gs) ==
    [is_fallback |-> fallback, group_size |-> gs, orig_dtype |-> "None",
     orig_shape |-> Absent, num_groups |-> None, input_q |-> None, scale |-> None]

-----------------------------------------------------------------------------
(* precision table shared by quantize / dequantize / selective_dequantize *)

SupportedBits == {4, 6, 8, 12}

\* variant: no rejecting else branch
resolve_mantisa_noelse(q_bits, q_mantisa_bits) ==
    CASE q_bits = 12 -> 4
      [] q_bits = 6 -> 2
      [] q_bits = 4 -> 1
      [] OTHER -> q_mantisa_bits

resolve_mantisa(q_bits, q_mantisa_bits) ==
    CASE q_bits = 8 -> q_mantisa_bits
      [] q_bits = 12 -> 4
      [] q_bits = 6 -> 2
      [] q_bits = 4 -> 1
      [] OTHER -> -1

Supported(m) == m # -1

-----------------------------------------------------------------------------
(* torch helpers *)

\* widths of the chunks torch.Tensor.split(split_size, dim) cuts a dimension
\* of size n into: equal chunks, the last one smaller
RECURSIVE split(_, _)
split(n, split_size) ==
    IF n <= split_size THEN <<n>> ELSE <<split_size>> \o split(n - split_size, split_size)

\* src.shape can be broadcast to dst.shape (Tensor.copy_)
RECURSIVE broadcastable(_, _)
broadcastable(src, dst) ==
    IF src = <<>> THEN TRUE
    ELSE IF dst = <<>> THEN FALSE
    ELSE /\ (src[Len(src)] = dst[Len(dst)] \/ src[Len(src)] = 1)
         /\ broadcastable(SubSeq(src, 1, Len(src) - 1), SubSeq(dst, 1, Len(dst) - 1))

-----------------------------------------------------------------------------
(* backends of quantize *)

\* fp_quant_module.quantize: writes codes and the inline scale of every group
\* into `out` and returns it
kernel_quantize(s, out, val, group_size, q_bits, q_mantisa_bits) ==
    LET written == QTensor(out.shape, val.id, val.id)
    IN Result([s EXCEPT !.input_q = written], "none", written, None)

\* variant: the scale computed only when the session holds none
quantize_fallback_keepscale(s, out, val, group_size, q_bits, q_mantisa_bits) ==
    IF q_bits # 8 THEN Result(s, "NotImplemented", None, None)
    ELSE IF q_mantisa_bits # 3 THEN Result(s, "NotImplemented", None, None)
    ELSE IF s.num_groups.v * group_size # numel(val.shape) THEN Result(s, "RuntimeError", None, None)
    ELSE LET s1 == IF s.scale = None
                   THEN [s EXCEPT !.scale = ScaleT(s.num_groups.v, 1, val.id)] ELSE s
             written == QTensor(out.shape, val.id, 0)
         IN Result([s1 EXCEPT !.input_q = written], "none", written, None)

\* the configured q_range_dtype is taken to be the one the device requires
quantize_fallback(s, out, val, group_size, q_bits, q_mantisa_bits) ==
    IF q_bits # 8 THEN Result(s, "NotImplemented", None, None)
    ELSE IF q_mantisa_bits # 3 THEN Result(s, "NotImplemented", None, None)
    \* val.view(self.num_groups, group_size)
    ELSE IF s.num_groups.v * group_size # numel(val.shape) THEN Result(s, "RuntimeError", None, None)
    ELSE LET s1 == [s EXCEPT !.scale = ScaleT(s.num_groups.v, 1, val.id)]
             \* out.copy_(quant): out is self.input_q
             written == QTensor(out.shape, val.id, 0)
         IN Result([s1 EXCEPT !.input_q = written], "none", written, None)

quantize_func(s, out, val, group_size, q_bits, q_mantisa_bits) ==
    IF s.is_fallback THEN quantize_fallback(s, out, val, group_size, q_bits, q_mantisa_bits)
    ELSE kernel_quantize(s, out, val, group_size, q_bits, q_mantisa_bits)

-----------------------------------------------------------------------------
(* FP_Quantize.quantize *)

\* the two leading asserts
quantize_check(input, q_bits, return_meta_tensor) ==
    IF input.dtype # "bf16" THEN "InvalidInputDtype"
    ELSE IF return_meta_tensor /\ q_bits # 8 THEN "MetaTensorNotQ8"
    ELSE "none"

quantize_record(s, input) ==
    [s EXCEPT !.orig_dtype = input.dtype, !.orig_shape = Size(input.shape)]

\* variant: without the padding term
num_groups_floor(n, g) == n \div g

num_groups_of(n, g) == (n + g - 1) \div g

group_bytes(s, n, q_bits) ==
    LET group_size == (Min(s.group_size, n) * q_bits) \div 8
    IN IF ~s.is_fallback THEN group_size + 4 ELSE group_size

\* the return_meta_tensor branch; `out` is what quantize_func returned
quantize_meta(s, input, out, group_size) ==
    IF ~s.is_fallback
    THEN LET chunks == split(out.shape[2], group_size)
         IN IF Len(chunks) # 2 THEN Result(s, "ValueError", None, None)
            ELSE LET s1 == [s EXCEPT !.scale = ScaleT(out.shape[1], chunks[2], out.inl)]
                 IN IF out.shape[1] * chunks[1] # numel(input.shape)
                    THEN Result(s1, "RuntimeError", None, None)
                    ELSE Result([s1 EXCEPT !.input_q = Absent], "none",
                                Pair(QTensor(input.shape, out.codes, 0), s1.scale), None)
    ELSE IF numel(out.shape) # numel(input.shape) THEN Result(s, "RuntimeError", None, None)
    ELSE IF s.scale = None THEN Result(s, "AttributeError", None, None)
    ELSE Result([s EXCEPT !.input_q = Absent], "none",
                Pair(QTensor(input.shape, out.codes, 0), s.scale), None)

\* from the precision table to the return
quantize_body(s, input, q_bits, q_mantisa_bits, return_meta_tensor) ==
    LET m == resolve_mantisa(q_bits, q_mantisa_bits)
    IN IF ~Supported(m) THEN Result(s, "UnsupportedPrecision", None, None)
       ELSE LET n == numel(input.shape)
                ng == num_groups_of(n, s.group_size)
                group_size == group_bytes(s, n, q_bits)
                buf == QTensor(<<ng, group_size>>, 0, 0)
                s1 == [s EXCEPT !.num_groups = PyInt(ng), !.input_q = buf]
                q == quantize_func(s1, buf, input, group_size, q_bits, m)
            IN IF q.err # "none" THEN Result(q.self, q.err, None, Size(buf.shape))
               ELSE IF return_meta_tensor
                    THEN LET r == quantize_meta(q.self, input, q.ret, group_size)
                         IN Result(r.self, r.err, r.ret, Size(buf.shape))
                    ELSE Result(q.self, "none", q.ret, Size(buf.shape))

quantize(s, input, q_bits, q_mantisa_bits, return_meta_tensor) ==
    LET e == quantize_check(input, q_bits, return_meta_tensor)
    IN IF e # "none" THEN Result(s, e, None, None)
       ELSE quantize_body(quantize_record(s, input), input, q_bits, q_mantisa_bits, return_meta_tensor)

-----------------------------------------------------------------------------
(* FP_Quantize.dequantize *)

\* outcome of a dequantize call: the error, the tensor returned, and whether
\* self.dequantize_func / self.selective_dequantize_func was entered
DResult(err, ret, invoked) == [err |-> err, ret |-> ret, invoked |-> invoked]

\* what the code leading to the backend call hands over to it
Prepared(err, fp_out, input_q, m) == [err |-> err, fp_out |-> fp_out, input_q |-> input_q, m |-> m]

\* torch.cat([input_q.reshape(-1, group_size), scale], dim=-1) behind the
\* element-count assert
reassemble(s, input_q, fp_out, scale, m) ==
    LET n == numel(input_q.shape)
        g == s.group_size
    IN IF n # numel(fp_out.shape) THEN Prepared("ShapeMismatch", fp_out, input_q, m)
       ELSE IF n % g # 0 THEN Prepared("RuntimeError", fp_out, input_q, m)
       ELSE IF n \div g # scale.rows THEN Prepared("RuntimeError", fp_out, input_q, m)
       ELSE Prepared("none", fp_out,
                     QTensor(<<n \div g, g + scale.cols>>, input_q.codes, scale.of), m)

\* variant: the group width taken from group_size alone
regroup_fallback_nomin(s, input_q, fp_out, q_bits, m) ==
    LET n == numel(input_q.shape)
        group_size == (s.group_size * q_bits) \div 8
    IN IF group_size = 0 THEN Prepared("RuntimeError", fp_out, input_q, m)
       ELSE IF n % group_size # 0 THEN Prepared("RuntimeError", fp_out, input_q, m)
       ELSE Prepared("none", fp_out,
                     QTensor(<<n \div group_size, group_size>>, input_q.codes, input_q.inl), m)

\* input_q.reshape(-1, group_size) of the fallback branch
regroup_fallback(s, input_q, fp_out, q_bits, m) ==
    LET n == numel(input_q.shape)
        group_size == (Min(s.group_size, n) * q_bits) \div 8
    IN IF group_size = 0 THEN Prepared("RuntimeError", fp_out, input_q, m)
       ELSE IF n % group_size # 0 THEN Prepared("RuntimeError", fp_out, input_q, m)
       ELSE Prepared("none", fp_out,
                     QTensor(<<n \div group_size, group_size>>, input_q.codes, input_q.inl), m)

dequantize_prepare(s, input_q, fp_out, q_bits, q_mantisa_bits, scale) ==
    IF s.orig_dtype = "None" THEN Prepared("SequenceError", fp_out, input_q, -1)
    ELSE IF fp_out = None /\ s.orig_shape = Absent THEN Prepared("AttributeError", fp_out, input_q, -1)
    ELSE LET out == IF fp_out = None THEN OutT(s.orig_shape.dims, s.orig_dtype, 0, 0) ELSE fp_out
             m == resolve_mantisa(q_bits, q_mantisa_bits)
         IN IF ~Supported(m) THEN Prepared("UnsupportedPrecision", out, input_q, m)
            ELSE IF scale # None /\ ~s.is_fallback THEN reassemble(s, input_q, out, scale, m)
            ELSE IF scale # None /\ s.is_fallback THEN regroup_fallback(s, input_q, out, q_bits, m)
            ELSE Prepared("none", out, input_q, m)

\* fp_quant_module.dequantize: decodes every group of input_q with the scale
\* stored inline and writes fp_out
kernel_dequantize(fp_out, input_q) ==
    DResult("none", OutT(fp_out.shape, fp_out.dtype, input_q.codes, input_q.inl), TRUE)

\* op_ok: whether torch.ops.hpu.cast_from_fp8 accepts an input that is not
\* laid out as one row per scale
dequantize_fallback(s, fp_out, input_q, op_ok) ==
    IF s.scale = None THEN DResult("TypeError", None, TRUE)
    ELSE IF ~((Len(input_q.shape) = 2 /\ input_q.shape[1] = s.scale.rows) \/ op_ok)
         THEN DResult("RuntimeError", None, TRUE)
    \* .view(self.orig_shape)
    ELSE IF numel(input_q.shape) # numel(s.orig_shape.dims) THEN DResult("RuntimeError", None, TRUE)
    \* fp_out.copy_(dequant_out)
    ELSE IF ~broadcastable(s.orig_shape.dims, fp_out.shape) THEN DResult("RuntimeError", None, TRUE)
    ELSE DResult("none", OutT(fp_out.shape, fp_out.dtype, input_q.codes, s.scale.of), TRUE)

dequantize_func(s, fp_out, input_q, op_ok) ==
    IF s.is_fallback THEN dequantize_fallback(s, fp_out, input_q, op_ok)
    ELSE kernel_dequantize(fp_out, input_q)

dequantize(s, input_q, fp_out, q_bits, q_mantisa_bits, scale, op_ok) ==
    LET p == dequantize_prepare(s, input_q, fp_out, q_bits, q_mantisa_bits, scale)
    IN IF p.err # "none" THEN DResult(p.err, None, FALSE)
       ELSE dequantize_func(s, p.fp_out, p.input_q, op_ok)

-----------------------------------------------------------------------------
(* FP_Quantize.selective_dequantize *)

\* fp_quant_module.selective_dequantize
kernel_selective_dequantize(fp_out, input_q) ==
    DResult("none", OutT(fp_out.shape, fp_out.dtype, input_q.codes, input_q.inl), TRUE)

\* variant: returns the output untouched instead of failing
selective_dequantize_fallback_silent(fp_out, input_q) ==
    DResult("none", fp_out, TRUE)

selective_dequantize_fallback(fp_out, input_q) ==
    DResult("NotImplemented", None, TRUE)

selective_dequantize_func(s, fp_out, input_q) ==
    IF s.is_fallback THEN selective_dequantize_fallback(fp_out, input_q)
    ELSE kernel_selective_dequantize(fp_out, input_q)

selective_dequantize(s, input_q, indexes, fp_out, q_bits, q_mantisa_bits, scale) ==
    IF ~(s.orig_shape = Absent \/ Len(s.orig_shape.dims) = 3) THEN DResult("ShapeMismatch", None, FALSE)
    ELSE IF s.orig_dtype = "None" THEN DResult("SequenceError", None, FALSE)
    ELSE IF fp_out = None /\ s.orig_shape = Absent THEN DResult("AttributeError", None, FALSE)
    ELSE LET out == IF fp_out = None
                    THEN OutT(<<indexes>> \o Tail(s.orig_shape.dims), s.orig_dtype, 0, 0)
                    ELSE fp_out
             m == resolve_mantisa(q_bits, q_mantisa_bits)
             p == IF scale # None /\ ~s.is_fallback
                  THEN reassemble(s, input_q, out, scale, m)
                  ELSE Prepared("none", out, input_q, m)
         IN IF ~Supported(m) THEN DResult("UnsupportedPrecision", None, FALSE)
            ELSE IF p.err # "none" THEN DResult(p.err, None, FALSE)
            ELSE selective_dequantize_func(s, p.fp_out, p.input_q)

-----------------------------------------------------------------------------
(* FP_Quantize.get_scales *)

get_scales_fallback(s) == DResult("none", s.scale, TRUE)

\* fp_quant_module.get_scales takes a tensor
kernel_get_scales(s) ==
    IF s.scale = None THEN DResult("TypeError", None, TRUE) ELSE DResult("none", s.scale, TRUE)

get_scales(s) == IF s.is_fallback THEN get_scales_fallback(s) ELSE kernel_get_scales(s)

-----------------------------------------------------------------------------
(* One engine driven by one caller *)

\* a quantize result the caller kept, with the tensor it was computed from
Held(input, out) == [kind |-> "held", T |-> input, out |-> out]

\* the last call: its name, the arguments the properties refer to, and its
\* outcome
NoCall ==
    [op |-> "none", err |-> "none", ret |-> None, alloc |-> None, q_bits |-> 8,
     q_mantisa_bits |-> 3, meta |-> FALSE, dtype |-> "bf16", scale_given |-> FALSE,
     sizes_match |-> TRUE, invoked |-> FALSE, used_held |-> FALSE]

\* arguments a caller can pass beside what quantize returned to it
ArbQ == {QTensor(<<2>>, 0, 0), QTensor(<<2, 2>>, 0, 0)}
ArbScales == {ScaleT(2, 4, 0)}
FpOuts == {None, OutT(<<2, 2>>, "bf16", 0, 0)}
\* an unsupported width, the default one and one that overrides the mantissa
DeqBits == {4, 5, 8}
\* numbers of rows selective_dequantize is asked for
IndexCounts == {1, 2}
OpOks(s) == IF s.is_fallback THEN BOOLEAN ELSE {TRUE}

\* (input_q, scale) argument pairs: what the last quantize call returned, and
\* tensors from elsewhere
DeqArgs ==
    (IF last.op = "quantize" /\ last.err = "none"
     THEN IF last.ret.kind = "pair"
          THEN {<<last.ret.data, last.ret.scale>>, <<last.ret.data, None>>}
          ELSE {<<last.ret, None>>}
     ELSE {})
    \cup {<<q, sc>> : q \in ArbQ, sc \in {None} \cup ArbScales}

\* the pair the caller kept
HeldArgs == IF held = None THEN {} ELSE {<<held.out.data, held.out.scale>>}

\* element count of the tensor a dequantize call writes
OutNumel(s, fp_out) ==
    IF fp_out # None THEN numel(fp_out.shape)
    ELSE IF s.orig_shape = Absent THEN 0 ELSE numel(s.orig_shape.dims)

ConcIdle == UNCHANGED <<engines, ctx, shared>>

\* keep: whether the caller may store the (data, scale) pair it gets back
QuantizeCall(keep, bits) ==
    \E a \in {x \in QuantizeArgs(bits) : x[3] \in MantissasFor(x[2])} :
        LET input == a[1]
            q_bits == a[2]
            q_mantisa_bits == a[3]
            return_meta_tensor == a[4]
            r == quantize(self, input, q_bits, q_mantisa_bits, return_meta_tensor)
        IN /\ self' = r.self
           /\ last' = [NoCall EXCEPT !.op = "quantize", !.err = r.err, !.ret = r.ret,
                                     !.alloc = r.alloc, !.q_bits = q_bits,
                                     !.q_mantisa_bits = q_mantisa_bits,
                                     !.meta = return_meta_tensor, !.dtype = input.dtype]
           /\ called' = TRUE
           /\ held' \in (IF keep /\ r.err = "none" /\ return_meta_tensor
                       THEN {held, Held(input, r.ret)} ELSE {held})
           /\ ConcIdle

Quantize == QuantizeCall(FALSE, QBits)

\* the widths of the calls around a meta-tensor round trip: the only one
\* meta-tensor mode takes, and an unsupported one
MetaBits == {5, 8}

QuantizeKeep == QuantizeCall(TRUE, MetaBits)

DequantizeCall(args, fp_outs, bits) ==
    \E a \in args, fp_out \in fp_outs, q_bits \in bits, op_ok \in OpOks(self) :
        LET q_mantisa_bits == 3
            r == dequantize(self, a[1], fp_out, q_bits, q_mantisa_bits, a[2], op_ok)
        IN /\ last' = [NoCall EXCEPT !.op = "dequantize", !.err = r.err, !.ret = r.ret,
                                     !.q_bits = q_bits, !.scale_given = (a[2] # None),
                                     !.sizes_match = (numel(a[1].shape) = OutNumel(self, fp_out)),
                                     !.invoked = r.invoked,
                                     !.used_held = /\ held # None
                                                   /\ a = <<held.out.data, held.out.scale>>
                                                   /\ fp_out = None
                                                   /\ q_bits = 8
                                                   /\ q_mantisa_bits = 3]
           /\ UNCHANGED <<self, held, called>>
           /\ ConcIdle

Dequantize == DequantizeCall(DeqArgs, FpOuts, DeqBits)

\* dequantize(data, scale=scale) on a pair kept from an earlier quantize
DequantizeHeld == DequantizeCall(HeldArgs, {None}, {8})

SelectiveDequantize ==
    \E a \in DeqArgs, indexes \in IndexCounts, fp_out \in FpOuts, q_bits \in DeqBits :
        LET q_mantisa_bits == 3
            r == selective_dequantize(self, a[1], indexes, fp_out, q_bits, q_mantisa_bits, a[2])
        IN /\ last' = [NoCall EXCEPT !.op = "selective_dequantize", !.err = r.err,
                                     !.ret = r.ret, !.q_bits = q_bits,
                                     !.scale_given = (a[2] # None), !.invoked = r.invoked]
           /\ UNCHANGED <<self, held, called>>
           /\ ConcIdle

GetScales ==
    LET r == get_scales(self)
    IN /\ last' = [NoCall EXCEPT !.op = "get_scales", !.err = r.err, !.ret = r.ret]
       /\ UNCHANGED <<self, held, called>>
       /\ ConcIdle

Init ==
    /\ \E fallback \in BOOLEAN, gs \in GroupSizes : self = FP_Quantize_init(fallback, gs)
    /\ last = NoCall
    /\ held = None
    /\ called = FALSE
    /\ engines = <<>>
    /\ ctx = <<>>
    /\ shared = FALSE

Next == Quantize \/ Dequantize \/ SelectiveDequantize \/ GetScales

Spec == Init /\ [][Next]_vars

\* the caller keeps pairs returned in meta-tensor mode and dequantizes them later
NextMeta == QuantizeKeep \/ DequantizeHeld

SpecMeta == Init /\ [][NextMeta]_vars

-----------------------------------------------------------------------------
(* Two execution contexts *)

Contexts == {1, 2}

\* the tensors of a context: its own content, and shapes no other context uses
ShapesOf(c) == IF c = 1 THEN {<<2>>, <<2, 1, 2>>} ELSE {<<1>>, <<2, 2>>}
TensorsOf(c) == {Tensor(c, sh, "bf16") : sh \in ShapesOf(c)}

\* variant: one session for every instance
EngineOfGlobal(c) == 1

\* the instance a context calls: the session fields are attributes of the
\* instance, so contexts share them exactly when they share the instance
EngineOf(c) == IF shared THEN 1 ELSE c

\* pc: where the context's call stands; input, meta: the arguments of the
\* quantize call under way; kept: the last quantize result it got, with its
\* tensor; prep: what dequantize handed to its backend; err, ret: the outcome
\* of its last dequantize call
IdleCtx ==
    [pc |-> "idle", input |-> None, meta |-> FALSE, kept |-> None, prep |-> None,
     err |-> "none", ret |-> None]

\* quantize up to the assignment of orig_dtype and orig_shape
CQuantizeBegin(c) ==
    \E input \in TensorsOf(c), return_meta_tensor \in BOOLEAN :
        /\ ctx[c].pc = "idle"
        /\ quantize_check(input, 8, return_meta_tensor) = "none"
        /\ engines' = [engines EXCEPT ![EngineOf(c)] = quantize_record(@, input)]
        /\ ctx' = [ctx EXCEPT ![c].pc = "quantize", ![c].input = input,
                              ![c].meta = return_meta_tensor]

\* the rest of quantize
CQuantizeEnd(c) ==
    /\ ctx[c].pc = "quantize"
    /\ LET r == quantize_body(engines[EngineOf(c)], ctx[c].input, 8, 3, ctx[c].meta)
       IN /\ engines' = [engines EXCEPT ![EngineOf(c)] = r.self]
          /\ ctx' = [ctx EXCEPT ![c].pc = "idle", ![c].input = None,
                                ![c].kept = IF r.err = "none"
                                            THEN Held(ctx[c].input, r.ret) ELSE @]

\* the arguments a context dequantizes its kept result with
KeptArgs(k) ==
    IF k.out.kind = "pair" THEN <<k.out.data, k.out.scale>> ELSE <<k.out, None>>

\* dequantize up to the call of the backend
CDequantizeBegin(c) ==
    /\ ctx[c].pc = "idle"
    /\ ctx[c].kept # None
    /\ LET a == KeptArgs(ctx[c].kept)
           p == dequantize_prepare(engines[EngineOf(c)], a[1], None, 8, 3, a[2])
       IN ctx' = IF p.err # "none"
                 THEN [ctx EXCEPT ![c].err = p.err, ![c].ret = None]
                 ELSE [ctx EXCEPT ![c].pc = "dequantize", ![c].prep = p]
    /\ UNCHANGED engines

\* the backend call of dequantize and the return
CDequantizeEnd(c) ==
    /\ ctx[c].pc = "dequantize"
    /\ \E op_ok \in OpOks(engines[EngineOf(c)]) :
          LET r == dequantize_func(engines[EngineOf(c)], ctx[c].prep.fp_out,
                                   ctx[c].prep.input_q, op_ok)
          IN ctx' = [ctx EXCEPT ![c].pc = "idle", ![c].prep = None,
                                ![c].err = r.err, ![c].ret = r.ret]
    /\ UNCHANGED engines

SeqIdle == UNCHANGED <<self, last, held, called, shared>>

InitConc ==
    /\ \E fallback \in BOOLEAN, gs \in GroupSizes :
          engines = [e \in Contexts |-> FP_Quantize_init(fallback, gs)]
    /\ ctx = [c \in Contexts |-> IdleCtx]
    /\ shared \in BOOLEAN
    /\ self = None
    /\ last = NoCall
    /\ held = None
    /\ called = FALSE

NextConc ==
    \E c \in Contexts :
        \/ CQuantizeBegin(c) /\ SeqIdle
        \/ CQuantizeEnd(c) /\ SeqIdle
        \/ CDequantizeBegin(c) /\ SeqIdle
        \/ CDequantizeEnd(c) /\ SeqIdle

SpecConc == InitConc /\ [][NextConc]_vars

-----------------------------------------------------------------------------
(* Properties *)

\* ceil(n / g): the least k with k * g >= n
Ceil(n, g) == CHOOSE k \in 0..n : k * g >= n /\ (k - 1) * g < n

\* floor(a / 8): the greatest w with 8 * w <= a
Floor8(a) == CHOOSE w \in 0..a : 8 * w <= a /\ 8 * (w + 1) > a

\* `out` is tensor t again: its shape, decoded from its codes with its scale
Reconstructs(out, t) ==
    /\ out.kind = "out"
    /\ out.shape = t.shape
    /\ out.dtype = t.dtype
    /\ out.codes = t.id
    /\ out.scl = t.id

\* C1: on an engine on which quantize was never called, every dequantize and
\* every selective_dequantize call fails with SequenceError and returns no
\* tensor, whatever its arguments.
C1_FreshDequantizeFails ==
    (~called /\ last.op \in {"dequantize", "selective_dequantize"})
        => (last.err = "SequenceError" /\ last.ret = None)

C1_Witness ==
    /\ ~called
    /\ last.op = "selective_dequantize"
    /\ last.q_bits = 5
    /\ last.scale_given
    /\ last.err = "SequenceError"

C3_FailedQuantizeKeepsSession ==
    [][(last'.op = "quantize" /\ last'.err # "none") => self' = self]_vars

\* C4: after a successful quantize of N elements, num_groups = ceil(N / G) and
\* the buffer allocated has shape [ceil(N / G), W], W = floor(min(G, N) *
\* q_bits / 8) on the fallback backend and that plus 4 on the accelerated one.
C4_GroupGeometry ==
    (last.op = "quantize" /\ last.err = "none")
        => LET n == numel(self.orig_shape.dims)
               g == self.group_size
               w == Floor8(Min(g, n) * last.q_bits)
           IN /\ last.q_bits \in SupportedBits
              /\ self.num_groups = PyInt(Ceil(n, g))
              /\ last.alloc = Size(<<Ceil(n, g), IF self.is_fallback THEN w ELSE w + 4>>)

C4_Witness ==
    /\ last.op = "quantize"
    /\ last.err = "none"
    /\ ~self.is_fallback
    /\ numel(self.orig_shape.dims) % self.group_size # 0
    /\ (Min(self.group_size, numel(self.orig_shape.dims)) * last.q_bits) % 8 # 0

\* C5 as stated: on both backends quantize(T, q_bits=8,
\* return_meta_tensor=true) of a bf16 tensor whose element count is divisible
\* by group_size returns (data, scale), data of T's shape and scale of
\* num_groups rows.
C5_MetaReturnsPair ==
    (/\ last.op = "quantize"
     /\ last.meta
     /\ last.q_bits = 8
     /\ last.q_mantisa_bits = 3
     /\ last.dtype = "bf16"
     /\ numel(self.orig_shape.dims) % self.group_size = 0)
        => /\ last.err = "none"
           /\ last.ret.kind = "pair"
           /\ last.ret.data.shape = self.orig_shape.dims
           /\ last.ret.scale.rows = self.num_groups.v

\* C6 as stated: dequantize(data, scale=scale) on a pair an earlier
\* quantize(T, return_meta_tensor=true) returned reconstructs T, whatever
\* quantize calls came in between.
C6_Original ==
    (last.op = "dequantize" /\ last.used_held)
        => (last.err = "none" /\ Reconstructs(last.ret, held.T))

\* C6 amended: dequantize(data, scale=scale) on such a pair reconstructs T
\* when the session's orig_dtype, orig_shape and scale are still the ones that
\* quantize call recorded; whenever it returns, the shape and the scale of the
\* reconstruction are the session's, not the arguments'.
C6_Amended ==
    (last.op = "dequantize" /\ last.used_held)
        => /\ (/\ self.orig_dtype = held.T.dtype
               /\ self.orig_shape = Size(held.T.shape)
               /\ self.scale = held.out.scale)
                  => (last.err = "none" /\ Reconstructs(last.ret, held.T))
           /\ last.err = "none"
                  => /\ last.ret.shape = self.orig_shape.dims
                     /\ last.ret.scl = self.scale.of

\* the pair is dequantized after a later quantize call: the call that
\* returned it released the buffer, which is allocated again
C6_Witness ==
    /\ last.op = "dequantize"
    /\ last.used_held
    /\ self.input_q # Absent
    /\ last.err = "none"
    /\ Reconstructs(last.ret, held.T)

\* a quantize call has recorded the whole session, the scale included where
\* the backend keeps it there
SessionRecorded(s) ==
    /\ s.orig_dtype # "None"
    /\ s.num_groups # None
    /\ s.is_fallback => s.scale # None

\* C7 as stated: a dequantize call with an explicit scale, after a quantize
\* and with a supported q_bits, whose quantized input and output differ in
\* element count fails with ShapeMismatch without entering the backend, on
\* both backends.
C7_SizeMismatchRejected ==
    (/\ last.op = "dequantize"
     /\ last.scale_given
     /\ SessionRecorded(self)
     /\ last.q_bits \in SupportedBits
     /\ ~last.sizes_match)
        => (last.err = "ShapeMismatch" /\ ~last.invoked)

\* C8: on the fallback backend selective_dequantize never returns a tensor,
\* and fails with NotImplemented when a quantize of a rank-3 tensor is
\* recorded and q_bits is supported, with or without a scale.
C8_FallbackSelectiveFails ==
    (last.op = "selective_dequantize" /\ self.is_fallback)
        => /\ last.ret = None
           /\ last.err # "none"
           /\ (/\ self.orig_dtype # "None"
               /\ self.orig_shape # Absent
               /\ Len(self.orig_shape.dims) = 3
               /\ last.q_bits \in SupportedBits)
                  => last.err = "NotImplemented"

C8_Witness ==
    /\ last.op = "selective_dequantize"
    /\ self.is_fallback
    /\ last.scale_given
    /\ last.err = "NotImplemented"

\* the id of the tensor whose codes a quantize call returned
RetCodes(ret) == IF ret.kind = "pair" THEN ret.data.codes ELSE ret.codes

\* C9: after a successful quantize call every session field holds the value
\* that call produced or none: the element type and the group count are the
\* call's, the buffer is the one returned or released, and the scale (what
\* get_scales hands out) is absent or the scale of the call's tensor.
C9_SessionFresh ==
    (last.op = "quantize" /\ last.err = "none")
        => /\ self.orig_dtype = last.dtype
           /\ self.num_groups = PyInt(Ceil(numel(self.orig_shape.dims), self.group_size))
           /\ self.input_q = (IF last.meta THEN Absent ELSE last.ret)
           /\ (last.meta => last.ret.data.shape = self.orig_shape.dims)
           /\ \/ self.scale = None
              \/ self.scale = ScaleT(self.num_groups.v, 1, RetCodes(last.ret))

C9_Witness ==
    /\ last.op = "quantize"
    /\ last.err = "none"
    /\ self.is_fallback
    /\ ~last.meta
    /\ self.scale # None
    /\ self.scale.of = 2

\* a dequantize of context c took its shape and its scale from what a
\* quantize of c recorded
OwnState(c, out) ==
    /\ out.shape \in ShapesOf(c)
    /\ out.codes = c
    /\ out.scl = c

\* C10: when every context has its own engine, whatever the interleaving a
\* dequantize allocates its output from, and reconstructs with, session state
\* a quantize of its own context recorded; contexts sharing one engine do
\* reach a state where that fails (C10_Witness).
C10_OwnEngineIsolated ==
    ~shared =>
        \A c \in Contexts :
            /\ ctx[c].ret # None => OwnState(c, ctx[c].ret)
            /\ ctx[c].prep # None => ctx[c].prep.fp_out.shape \in ShapesOf(c)

\* two contexts on one engine: a dequantize returned a tensor shaped or
\* scaled by the other context's quantize
C10_Witness ==
    /\ shared
    /\ \E c \in Contexts :
          /\ ctx[c].ret # None
          /\ ~OwnState(c, ctx[c].ret)
          /\ ctx[c].ret.codes = c

====
